---- MODULE Spec2Model ----
(***************************************************************************)
(* Model of the calendario core (packages/core/calendario): the calendar   *)
(* generator generate_calendar, the holiday classifier process_holidays,   *)
(* the schedule builder build_schedule with its decision policy and        *)
(* constraint predicates, and the validator validate_calendar.             *)
(*                                                                         *)
(* A date is its proleptic Gregorian ordinal (datetime.date.toordinal),    *)
(* so timedelta arithmetic is integer arithmetic.                          *)
(***************************************************************************)
EXTENDS Integers, Sequences, FiniteSets, TLC

(***************************************************************************)
(* Bounds of the model                                                     *)
(***************************************************************************)
\* longest holiday list given to generate_calendar
MaxHolidays == 2
\* period of the stream of draws a seeded random source yields
StreamLen == 1
\* longest list given to process_holidays in an arbitrary order
MaxInput == 3
\* longest day sequence given to Calendar.get_rest_blocks
MaxDays == 4
\* largest num_workers given to generate_multiple_calendars
MaxWorkers == 2
\* largest base_seed given to generate_multiple_calendars
MaxSeed == 1

(***************************************************************************)
(* datetime.date                                                           *)
(***************************************************************************)
IsLeap(y) == (y % 4 = 0) /\ ((y % 100 # 0) \/ (y % 400 = 0))

\* _DAYS_IN_MONTH and _DAYS_BEFORE_MONTH of datetime, for a non-leap year
DAYS_IN_MONTH == <<31, 28, 31, 30, 31, 30, 31, 31, 30, 31, 30, 31>>
DAYS_BEFORE_MONTH == <<0, 31, 59, 90, 120, 151, 181, 212, 243, 273, 304, 334>>

DaysInMonth(y, m) ==
    IF m = 2 /\ IsLeap(y) THEN 29 ELSE DAYS_IN_MONTH[m]

DaysBeforeMonth(y, m) ==
    DAYS_BEFORE_MONTH[m] + (IF m > 2 /\ IsLeap(y) THEN 1 ELSE 0)

DaysBeforeYear(y) ==
    (y - 1) * 365 + ((y - 1) \div 4) - ((y - 1) \div 100) + ((y - 1) \div 400)

\* date(y, m, d)
Date(y, m, d) == DaysBeforeYear(y) + DaysBeforeMonth(y, m) + d

DaysInYear(y) == IF IsLeap(y) THEN 366 ELSE 365

\* date.year
YearOf(d) ==
    LET n0   == d - 1
        n400 == n0 \div 146097
        r400 == n0 % 146097
        n100 == r400 \div 36524
        r100 == r400 % 36524
        n4   == r100 \div 1461
        r4   == r100 % 1461
        n1   == r4 \div 365
        y    == n400 * 400 + 1 + n100 * 100 + n4 * 4 + n1
    IN IF n1 = 4 \/ n100 = 4 THEN y - 1 ELSE y

\* day of the year, Jan 1 = 1
DayOfYear(d) == d - DaysBeforeYear(YearOf(d))

\* date.month
MonthOf(d) ==
    LET y     == YearOf(d)
        n     == DayOfYear(d) - 1
        month == (n + 50) \div 32
    IN IF DaysBeforeMonth(y, month) > n THEN month - 1 ELSE month

\* date.weekday(): Monday = 0 .. Sunday = 6
Weekday(d) == (d + 6) % 7

\* Monday of ISO week 1 of year y
IsoWeek1Monday(y) ==
    LET firstday     == Date(y, 1, 1)
        firstweekday == Weekday(firstday)
        monday       == firstday - firstweekday
    IN IF firstweekday > 3 THEN monday + 7 ELSE monday

\* date.isocalendar()[1]
IsoWeek(d) ==
    LET y    == YearOf(d)
        week == (d - IsoWeek1Monday(y)) \div 7
    IN IF d < IsoWeek1Monday(y)
       THEN ((d - IsoWeek1Monday(y - 1)) \div 7) + 1
       ELSE IF week >= 52 /\ d >= IsoWeek1Monday(y + 1) THEN 1
       ELSE week + 1

(***************************************************************************)
(* DayType.  calendario/domain.py and calendario/core/types.py each define *)
(* an Enum DayType; members of different Enum classes never compare equal. *)
(***************************************************************************)
WORK == "WORK"
REST == "REST"
ORDERING == "ORDERING"
HOLIDAY == "HOLIDAY"
WORKING_HOLIDAY == "WORKING_HOLIDAY"
CoreHOLIDAY == "core.HOLIDAY"
CoreWORKING_HOLIDAY == "core.WORKING_HOLIDAY"

\* the kind a member stands for, whichever Enum class it belongs to
KindOf(t) ==
    IF t = CoreHOLIDAY THEN HOLIDAY
    ELSE IF t = CoreWORKING_HOLIDAY THEN WORKING_HOLIDAY
    ELSE t

\* Day(date, day_type)
Day(d, t) == [date |-> d, day_type |-> t]

\* variant: every day other than a REST day counts as a work day
is_work_day_unless_rest(day) == day.day_type # REST

\* Day.is_work_day of calendario/domain.py
is_work_day(day) == day.day_type \in {WORK, ORDERING, WORKING_HOLIDAY}

\* Day.is_rest_day of calendario/domain.py
is_rest_day(day) == day.day_type \in {REST, HOLIDAY}

(***************************************************************************)
(* generation/holidays.py                                                  *)
(***************************************************************************)
SetOfSeq(s) == {s[i] : i \in 1..Len(s)}

Min(S) == CHOOSE x \in S : \A z \in S : x <= z

\* sorted(set(...)): ascending, without repetition
RECURSIVE SortedSeq(_)
SortedSeq(S) ==
    IF S = {} THEN <<>> ELSE <<Min(S)>> \o SortedSeq(S \ {Min(S)})

\* the for loop of _group_consecutive_holidays from position i on
RECURSIVE GroupFrom(_, _, _, _)
GroupFrom(sorted, i, blocks, current_block) ==
    IF i > Len(sorted) THEN Append(blocks, current_block)
    ELSE IF sorted[i] - current_block[Len(current_block)] = 1
         THEN GroupFrom(sorted, i + 1, blocks, Append(current_block, sorted[i]))
         ELSE GroupFrom(sorted, i + 1, Append(blocks, current_block), <<sorted[i]>>)

\* variant: the input is grouped as given, neither deduplicated nor sorted
_group_consecutive_holidays_as_given(holidays) ==
    IF holidays = <<>> THEN <<>>
    ELSE GroupFrom(holidays, 2, <<>>, <<holidays[1]>>)

_group_consecutive_holidays(holidays) ==
    IF holidays = <<>> THEN <<>>
    ELSE LET sorted_holidays == SortedSeq(SetOfSeq(holidays))
         IN GroupFrom(sorted_holidays, 2, <<>>, <<sorted_holidays[1]>>)

\* variant: the test takes Saturday-Sunday for the forbidden pair
IsSundayMondayPair_saturday(block) ==
    Weekday(block[1]) = 5 /\ Weekday(block[2]) = 6

\* the test of process_holidays on a block of two dates
IsSundayMondayPair(block) ==
    Weekday(block[1]) = 6 /\ Weekday(block[2]) = 0

\* variant: the first date of a pair rests and the second is worked
ClassifyPair_swapped(block) ==
    (block[1] :> CoreHOLIDAY) @@ (block[2] :> CoreWORKING_HOLIDAY)

\* the two entries process_holidays stores for a block of two dates
ClassifyPair(block) ==
    (block[1] :> CoreWORKING_HOLIDAY) @@ (block[2] :> CoreHOLIDAY)

\* variant: a block of three or more dates is accepted, each date a HOLIDAY
ClassifyBlock_any_length(block) ==
    IF Len(block) = 2
    THEN IF IsSundayMondayPair(block)
         THEN [error |-> "Sunday-Monday holiday pair not allowed",
               block |-> block, result |-> <<>>]
         ELSE [error |-> "", block |-> <<>>, result |-> ClassifyPair(block)]
    ELSE [error |-> "", block |-> <<>>,
          result |-> [d \in SetOfSeq(block) |-> CoreHOLIDAY]]

\* the body of the for loop of process_holidays: the entries the block adds
\* to result, or the ValueError raised (error is its text, block the block
\* whose length and end dates the message holds); error = "" is no error
ClassifyBlock(block) ==
    IF Len(block) = 1
    THEN [error |-> "", block |-> <<>>, result |-> (block[1] :> CoreHOLIDAY)]
    ELSE IF Len(block) = 2
    THEN IF IsSundayMondayPair(block)
         THEN [error |-> "Sunday-Monday holiday pair not allowed",
               block |-> block, result |-> <<>>]
         ELSE [error |-> "", block |-> <<>>, result |-> ClassifyPair(block)]
    ELSE [error |-> "Holiday block too large", block |-> block, result |-> <<>>]

\* the for loop of process_holidays over the blocks from position i on;
\* error = "" is a normal return of result
RECURSIVE ClassifyFrom(_, _, _)
ClassifyFrom(blocks, i, result) ==
    IF i > Len(blocks) THEN [error |-> "", block |-> <<>>, result |-> result]
    ELSE LET r == ClassifyBlock(blocks[i])
         IN IF r.error # "" THEN r
            ELSE ClassifyFrom(blocks, i + 1, r.result @@ result)

process_holidays(holidays) ==
    IF holidays = <<>> THEN [error |-> "", block |-> <<>>, result |-> <<>>]
    ELSE ClassifyFrom(_group_consecutive_holidays(holidays), 1, <<>>)

(***************************************************************************)
(* generation/constraints.py                                               *)
(***************************************************************************)
ScheduleState(cd, days, weeks, months) ==
    [current_date |-> cd, days_so_far |-> days,
     weeks_with_rest |-> weeks, months_with_weekend |-> months]

\* ScheduleState.current_work_streak over the first n days
RECURSIVE TrailingWork(_, _)
TrailingWork(days, n) ==
    IF n = 0 THEN 0
    ELSE IF is_work_day(days[n]) THEN 1 + TrailingWork(days, n - 1)
    ELSE 0

current_work_streak(st) == TrailingWork(st.days_so_far, Len(st.days_so_far))

needs_rest_this_week(st, current_date) ==
    IsoWeek(current_date) \notin st.weeks_with_rest

needs_weekend_this_month(st, current_date) ==
    MonthOf(current_date) \notin st.months_with_weekend

\* variant: Sunday taken to be weekday 0
would_create_sunday_monday_rest_monday(start_date) == Weekday(start_date) = 0

would_create_sunday_monday_rest(start_date) == Weekday(start_date) = 6

can_place_rest_at(start_date, hmap) ==
    IF would_create_sunday_monday_rest(start_date) THEN FALSE
    ELSE LET end_date == start_date + 1
             next_day == end_date + 1
         IN IF start_date \in DOMAIN hmap \/ end_date \in DOMAIN hmap THEN FALSE
            ELSE ~(next_day \in DOMAIN hmap /\ hmap[next_day] = HOLIDAY)

max_work_days_remaining(st) == 7 - current_work_streak(st)

(***************************************************************************)
(* generation/decisions.py                                                 *)
(***************************************************************************)
\* the while loop of simulate_work_placement
RECURSIVE SimulateFrom(_, _, _, _)
SimulateFrom(current, work_days_placed, length, hmap) ==
    IF work_days_placed < length
    THEN SimulateFrom(current + 1,
                      IF current \notin DOMAIN hmap
                      THEN work_days_placed + 1 ELSE work_days_placed,
                      length, hmap)
    ELSE current

\* variant: holiday dates are counted as work days
simulate_work_placement_counting_holidays(start_date, length, hmap) ==
    start_date + length

simulate_work_placement(start_date, length, hmap) ==
    SimulateFrom(start_date, 0, length, hmap)

\* variant: the check that the rest falls in the week needing it is missing
is_valid_work_length_any_week(st, start_date, length, hmap) ==
    IF current_work_streak(st) + length > 7 THEN FALSE
    ELSE LET rest_start == simulate_work_placement(start_date, length, hmap)
         IN IF YearOf(rest_start) # YearOf(start_date) THEN FALSE
            ELSE can_place_rest_at(rest_start, hmap)

is_valid_work_length(st, start_date, length, hmap) ==
    IF current_work_streak(st) + length > 7 THEN FALSE
    ELSE LET rest_start == simulate_work_placement(start_date, length, hmap)
         IN IF YearOf(rest_start) # YearOf(start_date) THEN FALSE
            ELSE IF ~can_place_rest_at(rest_start, hmap) THEN FALSE
            ELSE IF needs_rest_this_week(st, start_date)
                    /\ IsoWeek(rest_start) # IsoWeek(start_date) THEN FALSE
            ELSE TRUE

lands_on_friday(start_date, work_length, hmap) ==
    Weekday(simulate_work_placement(start_date, work_length, hmap)) = 4

\* range(3, max_length + 1) as a list
RECURSIVE RangeSeq(_, _)
RangeSeq(a, b) == IF a > b THEN <<>> ELSE <<a>> \o RangeSeq(a + 1, b)

\* variant: a length whose rest start falls in the next year is kept
ValidLengths_past_year_end(st, current_date, hmap) ==
    LET max_length == IF 7 < max_work_days_remaining(st)
                      THEN 7 ELSE max_work_days_remaining(st)
        valid(l)   ==
            LET rest_start == simulate_work_placement(current_date, l, hmap)
            IN /\ current_work_streak(st) + l <= 7
               /\ can_place_rest_at(rest_start, hmap)
               /\ needs_rest_this_week(st, current_date)
                      => IsoWeek(rest_start) = IsoWeek(current_date)
    IN SelectSeq(RangeSeq(3, max_length), valid)

\* valid_lengths of decide_work_block_length
ValidLengths(st, current_date, hmap) ==
    LET max_length == IF 7 < max_work_days_remaining(st)
                      THEN 7 ELSE max_work_days_remaining(st)
        valid(l)   == is_valid_work_length(st, current_date, l, hmap)
    IN SelectSeq(RangeSeq(3, max_length), valid)

\* friday_landing of decide_work_block_length
FridayLanding(valid_lengths, current_date, hmap) ==
    LET lands(l) == lands_on_friday(current_date, l, hmap)
    IN SelectSeq(valid_lengths, lands)

\* variant: the draw is always among all valid lengths
ChoiceList_unsteered(st, current_date, hmap) ==
    ValidLengths(st, current_date, hmap)

\* the list decide_work_block_length hands to rng.choice; it is empty
\* exactly when valid_lengths is, the case in which the function raises
ChoiceList(st, current_date, hmap) ==
    LET valid_lengths  == ValidLengths(st, current_date, hmap)
        friday_landing == FridayLanding(valid_lengths, current_date, hmap)
    IN IF needs_weekend_this_month(st, current_date) /\ friday_landing # <<>>
       THEN friday_landing
       ELSE valid_lengths

\* variant: the steered draw does not return, and a second draw follows
ChoiceCalls_falls_through(st, current_date, hmap) ==
    IF ChoiceList(st, current_date, hmap) # ValidLengths(st, current_date, hmap)
    THEN 2 ELSE 1

\* the number of calls of rng.choice in a call of decide_work_block_length
\* that returns: one of the two return statements is reached
ChoiceCalls(st, current_date, hmap) ==
    IF ChoiceList(st, current_date, hmap) # <<>> THEN 1 ELSE 0

\* rng.choice(list) for the draw r
Choice(list, r) == list[(r % Len(list)) + 1]

(***************************************************************************)
(* generation/schedule.py                                                  *)
(***************************************************************************)
\* ScheduleState.last_day is truthy and is a rest day
LastIsRest(st) ==
    st.days_so_far # <<>> /\ is_rest_day(st.days_so_far[Len(st.days_so_far)])

\* variant: the cursor is not moved
place_holiday_stays(st, hmap) ==
    ScheduleState(st.current_date,
                  Append(st.days_so_far, Day(st.current_date, hmap[st.current_date])),
                  st.weeks_with_rest, st.months_with_weekend)

place_holiday(st, hmap) ==
    ScheduleState(st.current_date + 1,
                  Append(st.days_so_far, Day(st.current_date, hmap[st.current_date])),
                  st.weeks_with_rest, st.months_with_weekend)

\* the while loop of place_work_block; yields the final current and new_days
RECURSIVE WorkLoop(_, _, _, _, _, _, _)
WorkLoop(current, work_days_placed, new_days, work_length, start_year, is_first_after_rest, hmap) ==
    IF work_days_placed < work_length /\ YearOf(current) = start_year
    THEN IF current \in DOMAIN hmap
         THEN WorkLoop(current + 1, work_days_placed, new_days, work_length,
                       start_year, is_first_after_rest, hmap)
         ELSE WorkLoop(current + 1, work_days_placed + 1,
                       Append(new_days,
                              Day(current,
                                  IF work_days_placed = 0 /\ is_first_after_rest
                                  THEN ORDERING ELSE WORK)),
                       work_length, start_year, is_first_after_rest, hmap)
    ELSE [current |-> current, new_days |-> new_days]

\* variant: the week of the work block is recorded as having its rest
place_work_block_marks_week(st, hmap, work_length) ==
    LET r == WorkLoop(st.current_date, 0, <<>>, work_length,
                      YearOf(st.current_date), LastIsRest(st), hmap)
    IN ScheduleState(r.current, st.days_so_far \o r.new_days,
                     st.weeks_with_rest \cup {IsoWeek(r.current)},
                     st.months_with_weekend)

\* place_work_block once decide_work_block_length has returned work_length
place_work_block(st, hmap, work_length) ==
    LET r == WorkLoop(st.current_date, 0, <<>>, work_length,
                      YearOf(st.current_date), LastIsRest(st), hmap)
    IN ScheduleState(r.current, st.days_so_far \o r.new_days,
                     st.weeks_with_rest, st.months_with_weekend)

\* variant: the test guarding the second rest day is inverted
place_rest_block_inverted(st, hmap) ==
    LET day1      == Day(st.current_date, REST)
        day2_date == st.current_date + 1
        new_days  == IF YearOf(day2_date) # YearOf(st.current_date)
                     THEN <<day1, Day(day2_date, REST)>> ELSE <<day1>>
        week_num  == IsoWeek(st.current_date)
    IN ScheduleState(day2_date + 1, st.days_so_far \o new_days,
                     st.weeks_with_rest \cup {week_num},
                     IF Weekday(st.current_date) = 5
                     THEN st.months_with_weekend \cup {MonthOf(st.current_date)}
                     ELSE st.months_with_weekend)

\* place_rest_block once can_place_rest_at has been checked
place_rest_block(st, hmap) ==
    LET day1      == Day(st.current_date, REST)
        day2_date == st.current_date + 1
        new_days  == IF YearOf(day2_date) = YearOf(st.current_date)
                     THEN <<day1, Day(day2_date, REST)>> ELSE <<day1>>
        week_num  == IsoWeek(st.current_date)
    IN ScheduleState(day2_date + 1, st.days_so_far \o new_days,
                     st.weeks_with_rest \cup {week_num},
                     IF Weekday(st.current_date) = 5
                     THEN st.months_with_weekend \cup {MonthOf(st.current_date)}
                     ELSE st.months_with_weekend)

(***************************************************************************)
(* domain.py: Calendar                                                     *)
(***************************************************************************)
Calendar(y, days) == [year |-> y, days |-> days]

Indices(n) == [i \in 1..n |-> i]

\* the check of Calendar.__post_init__; "" when the calendar is constructed
CalendarError(y, days) ==
    IF days = <<>> THEN "Calendar must have at least one day"
    ELSE IF \E i \in 1..Len(days) : YearOf(days[i].date) # y
         THEN "All days must be from the same year"
         ELSE ""

\* Calendar._index: the last day stored for each date
HasDay(cal, d) == \E i \in 1..Len(cal.days) : cal.days[i].date = d

get_day(cal, d) ==
    LET i == CHOOSE i \in 1..Len(cal.days) :
                /\ cal.days[i].date = d
                /\ \A j \in (i + 1)..Len(cal.days) : cal.days[j].date # d
    IN cal.days[i]

get_month_days(cal, month) ==
    LET in_month(day) == MonthOf(day.date) = month
    IN SelectSeq(cal.days, in_month)

\* the blocks the loop of get_work_blocks / get_rest_blocks collects: the
\* maximal runs of days whose day_type is in types, in order
Blocks(days, types) ==
    LET member(i) == days[i].day_type \in types
        first(i)  == member(i) /\ (i = 1 \/ ~member(i - 1))
        last(i)   == CHOOSE j \in i..Len(days) :
                        /\ \A k \in i..j : member(k)
                        /\ (j = Len(days) \/ ~member(j + 1))
        starts    == SelectSeq(Indices(Len(days)), first)
    IN [b \in 1..Len(starts) |-> SubSeq(days, starts[b], last(starts[b]))]

get_work_blocks(cal) ==
    Blocks(cal.days, {WORK, ORDERING, WORKING_HOLIDAY})

get_rest_blocks(cal) == Blocks(cal.days, {REST})

\* variant: the test is Day.is_rest_day, which also takes a HOLIDAY
IsRestEntry_is_rest_day(day) == is_rest_day(day)

\* the test of the loop of get_rest_blocks
IsRestEntry(day) == day.day_type = REST

\* the for loop of get_rest_blocks from position k on, statement by
\* statement, and the lines after it
RECURSIVE RestBlockLoop(_, _, _, _)
RestBlockLoop(days, k, blocks, current) ==
    IF k > Len(days)
    THEN IF current # <<>> THEN Append(blocks, current) ELSE blocks
    ELSE IF IsRestEntry(days[k])
         THEN RestBlockLoop(days, k + 1, blocks, Append(current, days[k]))
         ELSE IF current # <<>>
              THEN RestBlockLoop(days, k + 1, Append(blocks, current), <<>>)
              ELSE RestBlockLoop(days, k + 1, blocks, current)

\* get_rest_blocks computed by its loop
get_rest_blocks_loop(cal) == RestBlockLoop(cal.days, 1, <<>>, <<>>)

(***************************************************************************)
(* validation/rules.py.  An error string is modelled by a tuple of its     *)
(* text and the values formatted into it.                                  *)
(***************************************************************************)
\* the while loop of validate_holiday_pairing from position i on (1-based)
RECURSIVE PairingFrom(_, _, _)
PairingFrom(holiday_days, i, errors) ==
    IF i > Len(holiday_days) THEN errors
    ELSE LET current == holiday_days[i]
         IN IF i + 1 <= Len(holiday_days)
            THEN LET next_holiday == holiday_days[i + 1]
                 IN IF next_holiday.date - current.date = 1
                    THEN PairingFrom(holiday_days, i + 2,
                           errors
                           \o (IF current.day_type # WORKING_HOLIDAY
                               THEN << <<"First holiday in pair should be WORKING_HOLIDAY",
                                         current.date>> >>
                               ELSE <<>>)
                           \o (IF next_holiday.day_type # HOLIDAY
                               THEN << <<"Second holiday in pair should be HOLIDAY",
                                         next_holiday.date>> >>
                               ELSE <<>>))
                    ELSE PairingFrom(holiday_days, i + 1,
                           errors
                           \o (IF current.day_type # HOLIDAY
                               THEN << <<"Isolated holiday should be HOLIDAY",
                                         current.date>> >>
                               ELSE <<>>))
            ELSE PairingFrom(holiday_days, i + 1,
                   errors
                   \o (IF current.day_type # HOLIDAY
                       THEN << <<"Isolated holiday should be HOLIDAY", current.date>> >>
                       ELSE <<>>))

validate_holiday_pairing(cal) ==
    LET is_holiday(day) == day.day_type \in {HOLIDAY, WORKING_HOLIDAY}
    IN PairingFrom(SelectSeq(cal.days, is_holiday), 1, <<>>)

\* variant: a rest block of one day is accepted
validate_rest_blocks_at_most_two(cal) ==
    LET bad(block) == Len(block) > 2
        blocks     == SelectSeq(get_rest_blocks(cal), bad)
    IN [k \in 1..Len(blocks) |->
          <<"Rest block must be 2 days", blocks[k][1].date, Len(blocks[k])>>]

validate_rest_blocks(cal) ==
    LET bad(block) == Len(block) # 2
        blocks     == SelectSeq(get_rest_blocks(cal), bad)
    IN [k \in 1..Len(blocks) |->
          <<"Rest block must be 2 days", blocks[k][1].date, Len(blocks[k])>>]

validate_ordering_placement(cal) ==
    LET days   == cal.days
        bad(i) == /\ i >= 2
                  /\ is_rest_day(days[i - 1])
                  /\ is_work_day(days[i])
                  /\ days[i].day_type # ORDERING
        at     == SelectSeq(Indices(Len(days)), bad)
    IN [k \in 1..Len(at) |->
          <<"Expected ORDERING after rest", days[at[k]].date, days[at[k]].day_type>>]

validate_work_block_lengths(cal) ==
    LET bad(block) == Len(block) < 3 \/ Len(block) > 7
        blocks     == SelectSeq(get_work_blocks(cal), bad)
    IN [k \in 1..Len(blocks) |->
          <<IF Len(blocks[k]) < 3 THEN "Work block (min: 3)" ELSE "Work block (max: 7)",
            blocks[k][1].date, Len(blocks[k])>>]

\* free_weekends of validate_monthly_weekends for one month
FreeWeekends(cal, month) ==
    LET month_days == get_month_days(cal, month)
    IN Cardinality({i \in 1..(Len(month_days) - 1) :
          /\ Weekday(month_days[i].date) = 5
          /\ Weekday(month_days[i + 1].date) = 6
          /\ month_days[i].day_type = REST
          /\ month_days[i + 1].day_type = REST})

validate_monthly_weekends(cal) ==
    LET bad(month) == FreeWeekends(cal, month) # 1
        months     == SelectSeq(Indices(12), bad)
    IN [k \in 1..Len(months) |->
          <<"Month free weekends (must be 1)", months[k], FreeWeekends(cal, months[k])>>]

_get_all_iso_weeks(y) ==
    LET jan_1      == IsoWeek(Date(y, 1, 1))
        dec_31     == IsoWeek(Date(y, 12, 31))
        start_week == IF jan_1 > 50 THEN 1 ELSE jan_1
        end_week   == IF dec_31 = 1 THEN IsoWeek(Date(y, 12, 28)) ELSE dec_31
    IN RangeSeq(start_week, end_week)

\* variant: the week is counted from the Monday on or before Jan 1
_get_week_dates_from_jan_1(y, week_number) ==
    LET jan_1      == Date(y, 1, 1)
        week_start == jan_1 - Weekday(jan_1) + 7 * (week_number - 1)
        week_dates == [i \in 1..7 |-> week_start + (i - 1)]
        in_year(d) == YearOf(d) = y
    IN SelectSeq(week_dates, in_year)

_get_week_dates(y, week_number) ==
    LET jan_4      == Date(y, 1, 4)
        week_start == jan_4 - Weekday(jan_4) + 7 * (week_number - 1)
        week_dates == [i \in 1..7 |-> week_start + (i - 1)]
        in_year(d) == YearOf(d) = y
    IN SelectSeq(week_dates, in_year)

\* the while loop of validate_weekly_rest from position i on (1-based); a
\* date missing from the calendar is the KeyError branch
RECURSIVE RestBlocksFrom(_, _, _, _)
RestBlocksFrom(cal, week_dates, i, rest_blocks) ==
    IF i > Len(week_dates) THEN rest_blocks
    ELSE IF ~HasDay(cal, week_dates[i])
         THEN RestBlocksFrom(cal, week_dates, i + 1, rest_blocks)
    ELSE IF get_day(cal, week_dates[i]).day_type = REST
         THEN IF i + 1 <= Len(week_dates)
              THEN IF ~HasDay(cal, week_dates[i + 1])
                   THEN RestBlocksFrom(cal, week_dates, i + 1, rest_blocks)
                   ELSE IF get_day(cal, week_dates[i + 1]).day_type = REST
                        THEN RestBlocksFrom(cal, week_dates, i + 2, rest_blocks + 1)
                        ELSE RestBlocksFrom(cal, week_dates, i + 1, rest_blocks)
              ELSE RestBlocksFrom(cal, week_dates, i + 1, rest_blocks)
    ELSE RestBlocksFrom(cal, week_dates, i + 1, rest_blocks)

WeekRestBlocks(cal, week_num) ==
    RestBlocksFrom(cal, _get_week_dates(cal.year, week_num), 1, 0)

validate_weekly_rest(cal) ==
    LET bad(w)  == WeekRestBlocks(cal, w) # 1
        weeks   == SelectSeq(_get_all_iso_weeks(cal.year), bad)
    IN [k \in 1..Len(weeks) |->
          <<"Week rest blocks (must be 1)", weeks[k], WeekRestBlocks(cal, weeks[k])>>]

validate_no_sunday_monday_rest(cal) ==
    LET days   == cal.days
        bad(i) == /\ i + 1 <= Len(days)
                  /\ days[i].day_type = REST
                  /\ days[i + 1].day_type = REST
                  /\ Weekday(days[i].date) = 6
                  /\ Weekday(days[i + 1].date) = 0
        at     == SelectSeq(Indices(Len(days)), bad)
    IN [k \in 1..Len(at) |-> <<"Invalid Sunday-Monday rest block", days[at[k]].date>>]

(***************************************************************************)
(* validation/validator.py                                                 *)
(***************************************************************************)
\* variant: the rule on rest blocks is run before the rule on holidays
RuleResults_rest_blocks_first(cal) ==
    <<validate_rest_blocks(cal),
      validate_holiday_pairing(cal),
      validate_ordering_placement(cal),
      validate_work_block_lengths(cal),
      validate_monthly_weekends(cal),
      validate_weekly_rest(cal),
      validate_no_sunday_monday_rest(cal)>>

\* the lists the seven calls of validate_calendar extend errors with, in
\* the order of the calls
RuleResults(cal) ==
    <<validate_holiday_pairing(cal),
      validate_rest_blocks(cal),
      validate_ordering_placement(cal),
      validate_work_block_lengths(cal),
      validate_monthly_weekends(cal),
      validate_weekly_rest(cal),
      validate_no_sunday_monday_rest(cal)>>

\* variant: only the first rule is run
validate_calendar_first_rule(cal) == validate_holiday_pairing(cal)

\* the list errors of validate_calendar; ValidationError is raised iff it
\* is not empty
validate_calendar(cal) ==
    LET r == RuleResults(cal)
    IN r[1] \o r[2] \o r[3] \o r[4] \o r[5] \o r[6] \o r[7]

(***************************************************************************)
(* Inputs of generate_calendar                                             *)
(***************************************************************************)
\* the target years tried: an invalid year, then years beginning on a
\* Sunday (2023), a Monday (2024, leap), a Wednesday (2025), a Thursday
\* (2026) and a Tuesday (2036, leap)
Years == {0, 2023, 2024, 2025, 2026, 2036}

\* the dates holidays are drawn from: Jan 1..3, May 1..2, Dec 31 of the
\* target year, and the last day of the year before it
HolidayPool(y) ==
    {Date(y, 1, 1), Date(y, 1, 2), Date(y, 1, 3), Date(y, 5, 1), Date(y, 5, 2),
     Date(y, 12, 31), Date(y, 1, 1) - 1}

\* the lists of at most n elements of S, in non-decreasing order (a date
\* may be repeated); process_holidays sorts its input, so the order of the
\* list does not reach build_schedule
ListsUpTo(S, n) ==
    {l \in UNION {[1..k -> S] : k \in 0..n} :
        \A i \in 1..(Len(l) - 1) : l[i] <= l[i + 1]}

\* a seed stands for the stream of draws Random(seed) yields, here periodic
Draws == 0..4
Seeds == [1..StreamLen -> Draws]

(***************************************************************************)
(* State                                                                   *)
(***************************************************************************)
VARIABLES
    year,          \* argument year of generate_calendar
    holidays,      \* argument holidays, a list of dates
    seed,          \* argument seed
    pc,            \* "start", "build" (head of the loop of build_schedule),
                   \* "rest" (between place_work_block and place_rest_block),
                   \* "built" (build_schedule has returned), "done"
    holiday_map,   \* the map process_holidays returned
    rng,           \* number of draws taken from the Random generate_calendar
                   \* created
    state,         \* the ScheduleState of build_schedule
    work_length,   \* the last length decide_work_block_length returned
    days,          \* the tuple build_schedule returned
    errors,        \* the error list of validate_calendar
    outcome,       \* "" while running, "calendar" when generate_calendar
                   \* returns, else the message of the exception raised
    first,         \* <<>>, or <<r>> with r the result of an earlier call of
                   \* generate_calendar with the same arguments
    num_workers,   \* argument num_workers of generate_multiple_calendars
    base_seed,     \* argument base_seed: <<>> for None, else <<n>>
    worker_index,  \* the loop variable i of generate_multiple_calendars
    calendars,     \* the list calendars of generate_multiple_calendars
    multiple_outcome,  \* "" while generate_multiple_calendars runs, "list"
                   \* when it returns calendars, else the exception's message
    rest_blocks,   \* the list Calendar.get_rest_blocks returned
    returned,      \* <<>>, or <<v>> with v the value a function called
                   \* alone returned
    args           \* <<>>, or <<a>> with a the argument, other than the
                   \* year, of a function called alone

\* the variables of the callers of generate_calendar and of the accessor
outer == <<first, num_workers, base_seed, worker_index, calendars,
           multiple_outcome, rest_blocks, returned, args>>

vars == <<year, holidays, seed, pc, holiday_map, rng, state, work_length,
          days, errors, outcome, outer>>

\* no caller: generate_calendar is called directly
NoCaller ==
    /\ first = <<>>
    /\ num_workers = 0
    /\ base_seed = <<>>
    /\ worker_index = 0
    /\ calendars = <<>>
    /\ multiple_outcome = ""
    /\ rest_blocks = <<>>
    /\ returned = <<>>
    /\ args = <<>>

Init ==
    /\ year \in Years
    /\ holidays \in (IF year < 1 THEN {<<>>, <<Date(1, 1, 1)>>}
                     ELSE ListsUpTo(HolidayPool(year), MaxHolidays))
    /\ seed \in Seeds
    /\ pc = "start"
    /\ holiday_map = <<>>
    /\ rng = 0
    /\ state = ScheduleState(0, <<>>, {}, {})
    /\ work_length = 0
    /\ days = <<>>
    /\ errors = <<>>
    /\ outcome = ""
    /\ NoCaller

\* variant: the random source is not seeded, so a later call draws
\* another stream
Draw_unseeded == (seed[(rng % StreamLen) + 1] + Len(first)) % Cardinality(Draws)

\* the next draw of the random source
Draw == seed[(rng % Len(seed)) + 1]

\* variant: the check for duplicate dates is missing
InputError_no_duplicate_check(y, hs) ==
    IF y < 1 THEN "Invalid year"
    ELSE IF hs # <<>> /\ \E i \in 1..Len(hs) : YearOf(hs[i]) # y
         THEN "All holidays must be in the target year"
    ELSE ""

\* the input checks of generate_calendar; "" when the input is accepted
InputError(y, hs) ==
    IF y < 1 THEN "Invalid year"
    ELSE IF hs # <<>> /\ \E i \in 1..Len(hs) : YearOf(hs[i]) # y
         THEN "All holidays must be in the target year"
    ELSE IF Len(hs) # Cardinality(SetOfSeq(hs)) THEN "Duplicate holidays found"
    ELSE ""

Raise(msg) ==
    /\ outcome' = msg
    /\ pc' = "done"

\* generate_calendar up to the first iteration of build_schedule
Generate ==
    /\ pc = "start"
    /\ IF InputError(year, holidays) # ""
       THEN /\ Raise(InputError(year, holidays))
            /\ UNCHANGED <<holiday_map, rng, state>>
       ELSE IF process_holidays(holidays).error # ""
       THEN /\ Raise(process_holidays(holidays).error)
            /\ UNCHANGED <<holiday_map, rng, state>>
       ELSE /\ holiday_map' = process_holidays(holidays).result
            /\ rng' = 0
            /\ state' = ScheduleState(Date(year, 1, 1), <<>>, {}, {})
            /\ pc' = "build"
            /\ UNCHANGED outcome
    /\ UNCHANGED <<year, holidays, seed, work_length, days, errors, outer>>

\* build_schedule: the holiday branch of the loop
PlaceHoliday ==
    /\ pc = "build"
    /\ YearOf(state.current_date) = year
    /\ state.current_date \in DOMAIN holiday_map
    /\ state' = place_holiday(state, holiday_map)
    /\ UNCHANGED <<year, holidays, seed, pc, holiday_map, rng, work_length,
                   days, errors, outcome, outer>>

\* build_schedule: place_work_block, with decide_work_block_length
PlaceWorkBlock ==
    /\ pc = "build"
    /\ YearOf(state.current_date) = year
    /\ state.current_date \notin DOMAIN holiday_map
    /\ LET list == ChoiceList(state, state.current_date, holiday_map)
       IN IF list = <<>>
          THEN /\ Raise("No valid work length")
               /\ UNCHANGED <<rng, state, work_length>>
          ELSE LET length == Choice(list, Draw)
                   next   == place_work_block(state, holiday_map, length)
               IN /\ work_length' = length
                  /\ rng' = rng + ChoiceCalls(state, state.current_date, holiday_map)
                  /\ state' = next
                  /\ pc' = IF YearOf(next.current_date) = year THEN "rest" ELSE "build"
                  /\ UNCHANGED outcome
    /\ UNCHANGED <<year, holidays, seed, holiday_map, days, errors, outer>>

\* build_schedule: place_rest_block
PlaceRestBlock ==
    /\ pc = "rest"
    /\ IF ~can_place_rest_at(state.current_date, holiday_map)
       THEN /\ Raise("Cannot place rest")
            /\ UNCHANGED state
       ELSE /\ state' = place_rest_block(state, holiday_map)
            /\ pc' = "build"
            /\ UNCHANGED outcome
    /\ UNCHANGED <<year, holidays, seed, holiday_map, rng, work_length, days,
                   errors, outer>>

\* build_schedule: the loop ends and days_so_far is returned
Return ==
    /\ pc = "build"
    /\ YearOf(state.current_date) # year
    /\ days' = state.days_so_far
    /\ pc' = "built"
    /\ UNCHANGED <<year, holidays, seed, holiday_map, rng, state, work_length,
                   errors, outcome, outer>>

\* generate_calendar: Calendar(year, days) and validate_calendar
Validate ==
    /\ pc = "built"
    /\ IF CalendarError(year, days) # ""
       THEN /\ outcome' = CalendarError(year, days)
            /\ UNCHANGED errors
       ELSE /\ errors' = validate_calendar(Calendar(year, days))
            /\ outcome' = IF errors' = <<>> THEN "calendar"
                          ELSE "Calendar validation failed"
    /\ pc' = "done"
    /\ UNCHANGED <<year, holidays, seed, holiday_map, rng, state, work_length,
                   days, outer>>

Next ==
    \/ Generate
    \/ PlaceHoliday
    \/ PlaceWorkBlock
    \/ PlaceRestBlock
    \/ Return
    \/ Validate

Spec == Init /\ [][Next]_vars


(***************************************************************************)
(* Two calls of generate_calendar with the same arguments                  *)
(* (tests/test_generation.py, test_generate_calendar_deterministic)        *)
(***************************************************************************)
\* what a call of generate_calendar leaves its caller: the calendar's days
\* or the exception, with the validator's error list and the date a
\* builder failure names
CallResult ==
    [outcome |-> outcome, days |-> days, errors |-> errors,
     at |-> state.current_date, draws |-> rng]

\* a year whose runs end in the validator, one failing at Jan 1 and a leap year
TwiceYears == {2025, 2026, 2036}

InitTwice ==
    /\ year \in TwiceYears
    /\ holidays \in ListsUpTo(HolidayPool(year), MaxHolidays)
    /\ seed \in Seeds
    /\ pc = "start"
    /\ holiday_map = <<>>
    /\ rng = 0
    /\ state = ScheduleState(0, <<>>, {}, {})
    /\ work_length = 0
    /\ days = <<>>
    /\ errors = <<>>
    /\ outcome = ""
    /\ NoCaller

\* the first call is over; the second starts with the same arguments and
\* fresh locals
Rerun ==
    /\ pc = "done"
    /\ first = <<>>
    /\ first' = <<CallResult>>
    /\ pc' = "start"
    /\ holiday_map' = <<>>
    /\ state' = ScheduleState(0, <<>>, {}, {})
    /\ work_length' = 0
    /\ days' = <<>>
    /\ errors' = <<>>
    /\ outcome' = ""
    /\ UNCHANGED <<year, holidays, seed, rng, num_workers, base_seed,
                   worker_index, calendars, multiple_outcome, rest_blocks,
                   returned, args>>

NextTwice ==
    \/ Generate
    \/ PlaceHoliday
    \/ PlaceWorkBlock
    \/ PlaceRestBlock
    \/ Return
    \/ Validate
    \/ Rerun

SpecTwice == InitTwice /\ [][NextTwice]_vars

(***************************************************************************)
(* api.py: generate_multiple_calendars                                     *)
(***************************************************************************)
\* the stream of draws Random(n) yields for the integer seed n
RandomStream(n) == [k \in 1..StreamLen |-> (n + k - 1) % Cardinality(Draws)]

\* seed of the loop body: <<>> for None
WorkerSeed(bs, w) == IF bs # <<>> THEN <<bs[1] + w>> ELSE <<>>

\* variant: an exception of a generation is swallowed
CallFailed_swallowed(out) == FALSE

\* the call of generate_calendar in the loop body raised
CallFailed(out) == out # "calendar"

MultipleYears == {2025, 2026}

\* the holiday lists tried: none, one date, a pair, a repeated date
MultipleHolidays(y) ==
    {<<>>, <<Date(y, 5, 1)>>, <<Date(y, 5, 1), Date(y, 5, 2)>>,
     <<Date(y, 1, 1), Date(y, 1, 1)>>}

InitMultiple ==
    /\ year \in MultipleYears
    /\ holidays \in MultipleHolidays(year)
    /\ num_workers \in 0..MaxWorkers
    /\ base_seed \in {<<>>} \cup {<<n>> : n \in 0..MaxSeed}
    /\ worker_index = 0
    /\ calendars = <<>>
    /\ multiple_outcome = ""
    /\ pc = "loop"
    /\ seed = RandomStream(0)
    /\ holiday_map = <<>>
    /\ rng = 0
    /\ state = ScheduleState(0, <<>>, {}, {})
    /\ work_length = 0
    /\ days = <<>>
    /\ errors = <<>>
    /\ outcome = ""
    /\ first = <<>>
    /\ rest_blocks = <<>>
    /\ returned = <<>>
    /\ args = <<>>

\* the loop body up to the call: seed is computed and generate_calendar is
\* entered; an unseeded Random() may yield any stream
StartWorker ==
    /\ pc = "loop"
    /\ worker_index < num_workers
    /\ LET s == WorkerSeed(base_seed, worker_index)
       IN IF s # <<>> THEN seed' = RandomStream(s[1]) ELSE seed' \in Seeds
    /\ pc' = "start"
    /\ holiday_map' = <<>>
    /\ state' = ScheduleState(0, <<>>, {}, {})
    /\ work_length' = 0
    /\ days' = <<>>
    /\ errors' = <<>>
    /\ outcome' = ""
    /\ UNCHANGED <<year, holidays, rng, outer>>

\* the call is over: its exception leaves generate_multiple_calendars, or
\* its calendar is appended and the loop goes on
EndWorker ==
    /\ pc = "done"
    /\ IF CallFailed(outcome)
       THEN /\ multiple_outcome' = outcome
            /\ pc' = "raised"
            /\ UNCHANGED <<worker_index, calendars>>
       ELSE /\ calendars' = Append(calendars, Calendar(year, days))
            /\ worker_index' = worker_index + 1
            /\ pc' = "loop"
            /\ UNCHANGED multiple_outcome
    /\ UNCHANGED <<year, holidays, seed, holiday_map, rng, state, work_length,
                   days, errors, outcome, first, num_workers, base_seed,
                   rest_blocks, returned, args>>

\* range(num_workers) is exhausted: calendars is returned
ReturnCalendars ==
    /\ pc = "loop"
    /\ worker_index >= num_workers
    /\ multiple_outcome' = "list"
    /\ pc' = "returned"
    /\ UNCHANGED <<year, holidays, seed, holiday_map, rng, state, work_length,
                   days, errors, outcome, first, num_workers, base_seed,
                   worker_index, calendars, rest_blocks, returned, args>>

NextMultiple ==
    \/ StartWorker
    \/ Generate
    \/ PlaceHoliday
    \/ PlaceWorkBlock
    \/ PlaceRestBlock
    \/ Return
    \/ Validate
    \/ EndWorker
    \/ ReturnCalendars

SpecMultiple == InitMultiple /\ [][NextMultiple]_vars

(***************************************************************************)
(* generate_calendar for a year whose February ends on a Saturday          *)
(***************************************************************************)
\* the leap year whose Feb 29 is a Saturday
MonthEndYear ==
    CHOOSE y \in 2000..2030 : IsLeap(y) /\ Weekday(Date(y, 2, 29)) = 5

\* no holiday or a holiday on Jan 1, and every stream of draws of period
\* StreamLen + 2
InitMonthEnd ==
    /\ year = MonthEndYear
    /\ holidays \in {<<>>, <<Date(year, 1, 1)>>}
    /\ seed \in [1..(StreamLen + 2) -> Draws]
    /\ pc = "start"
    /\ holiday_map = <<>>
    /\ rng = 0
    /\ state = ScheduleState(0, <<>>, {}, {})
    /\ work_length = 0
    /\ days = <<>>
    /\ errors = <<>>
    /\ outcome = ""
    /\ NoCaller

SpecMonthEnd == InitMonthEnd /\ [][Next]_vars

(***************************************************************************)
(* generate_calendar run to its end                                        *)
(***************************************************************************)
\* the calls followed to their end: the years and holiday lists of
\* MultipleYears and MultipleHolidays with the streams of integer seeds
InitLive ==
    /\ year \in MultipleYears
    /\ holidays \in MultipleHolidays(year)
    /\ seed \in {RandomStream(n) : n \in 0..MaxSeed}
    /\ pc = "start"
    /\ holiday_map = <<>>
    /\ rng = 0
    /\ state = ScheduleState(0, <<>>, {}, {})
    /\ work_length = 0
    /\ days = <<>>
    /\ errors = <<>>
    /\ outcome = ""
    /\ NoCaller

\* a step of generate_calendar up to the return of build_schedule
BuildStep ==
    \/ Generate
    \/ PlaceHoliday
    \/ PlaceWorkBlock
    \/ PlaceRestBlock
    \/ Return

\* build_schedule is sequential code: a step of it that can be taken is
\* taken
SpecLive == InitLive /\ [][Next]_vars /\ WF_vars(BuildStep)

(***************************************************************************)
(* process_holidays called alone                                           *)
(***************************************************************************)
\* the year of the dates tried, one that begins on a Wednesday
ClassifyYear == CHOOSE y \in Years : y > 0 /\ Weekday(Date(y, 1, 1)) = 2

\* the dates the lists are drawn from: Dec 31 of the year before, Jan 1 and
\* Jan 2 (a run across New Year), Sunday Jan 26 and Monday Jan 27, Jan 30,
\* Jan 31 and Feb 1 (a run across a month boundary), and Dec 31
ClassifyPool ==
    {Date(ClassifyYear, 1, 1) - 1, Date(ClassifyYear, 1, 1),
     Date(ClassifyYear, 1, 2), Date(ClassifyYear, 1, 26),
     Date(ClassifyYear, 1, 27), Date(ClassifyYear, 1, 30),
     Date(ClassifyYear, 1, 31), Date(ClassifyYear, 2, 1),
     Date(ClassifyYear, 12, 31)}

\* every list of at most MaxInput dates, in any order and with repetition,
\* and every set of dates as an ascending list
ClassifyInputs ==
    UNION {[1..k -> ClassifyPool] : k \in 0..MaxInput}
    \cup {SortedSeq(S) : S \in SUBSET ClassifyPool}

InitHolidays ==
    /\ year = ClassifyYear
    /\ holidays \in ClassifyInputs
    /\ pc = "classify"
    /\ seed = RandomStream(0)
    /\ holiday_map = <<>>
    /\ rng = 0
    /\ state = ScheduleState(0, <<>>, {}, {})
    /\ work_length = 0
    /\ days = <<>>
    /\ errors = <<>>
    /\ outcome = ""
    /\ NoCaller

\* process_holidays(holidays): outcome is "map" when it returns, else the
\* text of its ValueError, which errors then holds with the block it names
Classify ==
    /\ pc = "classify"
    /\ LET r == process_holidays(holidays)
       IN /\ holiday_map' = r.result
          /\ outcome' = IF r.error = "" THEN "map" ELSE r.error
          /\ errors' = IF r.error = "" THEN <<>> ELSE << <<r.error, r.block>> >>
    /\ pc' = "done"
    /\ UNCHANGED <<year, holidays, seed, rng, state, work_length, days, outer>>

NextHolidays == Classify

SpecHolidays == InitHolidays /\ [][NextHolidays]_vars

(***************************************************************************)
(* Calendar.get_rest_blocks called on an arbitrary calendar                *)
(***************************************************************************)
\* the members a Day of a calendar may hold
DayTypes == {WORK, REST, ORDERING, HOLIDAY, WORKING_HOLIDAY, CoreHOLIDAY}

BlocksYear == ClassifyYear

\* the day sequences of at most MaxDays consecutive dates from Jan 1
DaySequences ==
    UNION {{[k \in 1..n |-> Day(Date(BlocksYear, 1, 1) + k - 1, t[k])] :
               t \in [1..n -> DayTypes]} : n \in 1..MaxDays}

InitBlocks ==
    /\ year = BlocksYear
    /\ days \in DaySequences
    /\ pc = "blocks"
    /\ holidays = <<>>
    /\ seed = RandomStream(0)
    /\ holiday_map = <<>>
    /\ rng = 0
    /\ state = ScheduleState(0, <<>>, {}, {})
    /\ work_length = 0
    /\ errors = <<>>
    /\ outcome = ""
    /\ NoCaller

\* Calendar(year, days).get_rest_blocks()
GetRestBlocks ==
    /\ pc = "blocks"
    /\ rest_blocks' = get_rest_blocks_loop(Calendar(year, days))
    /\ pc' = "done"
    /\ UNCHANGED <<year, holidays, seed, holiday_map, rng, state, work_length,
                   days, errors, outcome, first, num_workers, base_seed,
                   worker_index, calendars, multiple_outcome, returned,
                   args>>

NextBlocks == GetRestBlocks

SpecBlocks == InitBlocks /\ [][NextBlocks]_vars

(***************************************************************************)
(* can_place_rest_at called alone                                          *)
(***************************************************************************)
PlaceYear == ClassifyYear

\* the dates tried as start and as holidays: the first two weeks of January
PlaceDates == Date(PlaceYear, 1, 1)..Date(PlaceYear, 1, 14)

\* the holiday maps tried: the maps process_holidays returns for at most
\* MaxHolidays dates, and the maps over those dates written by hand with
\* members of calendario.domain.DayType, as tests/test_contraints.py does
PlaceMaps ==
    {process_holidays(l).result :
        l \in {m \in ListsUpTo(PlaceDates, MaxHolidays) :
                  process_holidays(m).error = ""}}
    \cup UNION {[S -> {HOLIDAY, WORKING_HOLIDAY}] :
                   S \in {T \in SUBSET PlaceDates : Cardinality(T) <= MaxHolidays}}

InitPlace ==
    /\ year = PlaceYear
    /\ holiday_map \in PlaceMaps
    /\ state \in {ScheduleState(d, <<>>, {}, {}) : d \in PlaceDates}
    /\ pc = "place"
    /\ holidays = <<>>
    /\ seed = RandomStream(0)
    /\ rng = 0
    /\ work_length = 0
    /\ days = <<>>
    /\ errors = <<>>
    /\ outcome = ""
    /\ NoCaller

\* can_place_rest_at(state.current_date, holiday_map)
CanPlaceRestAt ==
    /\ pc = "place"
    /\ returned' = <<can_place_rest_at(state.current_date, holiday_map)>>
    /\ pc' = "done"
    /\ UNCHANGED <<year, holidays, seed, holiday_map, rng, state, work_length,
                   days, errors, outcome, first, num_workers, base_seed,
                   worker_index, calendars, multiple_outcome, rest_blocks,
                   args>>

NextPlace == CanPlaceRestAt

SpecPlace == InitPlace /\ [][NextPlace]_vars

(***************************************************************************)
(* validate_calendar called on an arbitrary calendar                       *)
(***************************************************************************)
\* the lengths of the work blocks of a calendar of BlocksYear that
\* validate_calendar accepts: every block but the last is followed by two
\* REST days
AcceptedBlocks ==
    <<3, 4, 5, 5, 5, 5, 5, 6, 5, 4, 5, 5, 5, 5, 5, 5, 6, 5, 4, 5, 5, 5, 5, 5,
      5, 6, 5, 4, 5, 5, 5, 5, 5, 5, 6, 5, 4, 5, 5, 5, 5, 5, 6, 5, 4, 5, 5, 5,
      5, 5, 5, 6, 3>>

\* the days of the work blocks of the given lengths from block k on, the
\* first starting at d, each followed by two REST days while the year lasts
RECURSIVE DaysOfBlocks(_, _, _, _)
DaysOfBlocks(lengths, k, d, acc) ==
    IF k > Len(lengths) THEN acc
    ELSE LET last == Date(BlocksYear, 12, 31)
             work == [j \in 1..lengths[k] |->
                         Day(d + j - 1, IF j = 1 /\ k > 1 THEN ORDERING ELSE WORK)]
             rest == [j \in 1..2 |-> Day(d + lengths[k] + j - 1, REST)]
             in_year(day) == day.date <= last
         IN DaysOfBlocks(lengths, k + 1, d + lengths[k] + 2,
                         acc \o SelectSeq(work \o rest, in_year))

AcceptedDays == DaysOfBlocks(AcceptedBlocks, 1, Date(BlocksYear, 1, 1), <<>>)

\* the accepted calendar without one of its days of January
IncompleteDays ==
    {SubSeq(AcceptedDays, 1, k - 1) \o SubSeq(AcceptedDays, k + 1, Len(AcceptedDays)) :
        k \in {j \in 1..Len(AcceptedDays) : MonthOf(AcceptedDays[j].date) = 1}}

\* Calendar(year, days) has been constructed for a short day sequence, for
\* the accepted calendar or for that calendar without one day, and
\* validate_calendar is called
InitValidate ==
    /\ year = BlocksYear
    /\ days \in DaySequences \cup {AcceptedDays} \cup IncompleteDays
    /\ pc = "built"
    /\ holidays = <<>>
    /\ seed = RandomStream(0)
    /\ holiday_map = <<>>
    /\ rng = 0
    /\ state = ScheduleState(0, <<>>, {}, {})
    /\ work_length = 0
    /\ errors = <<>>
    /\ outcome = ""
    /\ NoCaller

NextValidate == Validate

SpecValidate == InitValidate /\ [][NextValidate]_vars

(***************************************************************************)
(* validation/rules.py: _get_week_dates called alone                       *)
(***************************************************************************)
\* the years tried: every weekday of Jan 1, leap and common years, years
\* of 52 and of 53 ISO weeks
WeekYears == 2000..2030

InitWeeks ==
    /\ year \in WeekYears
    /\ \E k \in 1..Len(_get_all_iso_weeks(year)) :
          args = <<_get_all_iso_weeks(year)[k]>>
    /\ pc = "week"
    /\ holidays = <<>>
    /\ seed = RandomStream(0)
    /\ holiday_map = <<>>
    /\ rng = 0
    /\ state = ScheduleState(0, <<>>, {}, {})
    /\ work_length = 0
    /\ days = <<>>
    /\ errors = <<>>
    /\ outcome = ""
    /\ first = <<>>
    /\ num_workers = 0
    /\ base_seed = <<>>
    /\ worker_index = 0
    /\ calendars = <<>>
    /\ multiple_outcome = ""
    /\ rest_blocks = <<>>
    /\ returned = <<>>

\* _get_week_dates(year, week_number)
GetWeekDates ==
    /\ pc = "week"
    /\ returned' = <<_get_week_dates(year, args[1])>>
    /\ pc' = "done"
    /\ UNCHANGED <<year, holidays, seed, holiday_map, rng, state, work_length,
                   days, errors, outcome, first, num_workers, base_seed,
                   worker_index, calendars, multiple_outcome, rest_blocks,
                   args>>

NextWeeks == GetWeekDates

SpecWeeks == InitWeeks /\ [][NextWeeks]_vars

(***************************************************************************)
(* core/intervals.py: find_gaps called alone                               *)
(***************************************************************************)
\* Interval(start, end); the constructor raises when end < start
Interval(start, end) == [start |-> start, end |-> end]

\* sorted(intervals, key=lambda i: i.start): the intervals before position
\* n, in ascending order of start, equal starts in their order in the list
RECURSIVE SortedByStart(_, _)
SortedByStart(intervals, n) ==
    IF n = 0 THEN <<>>
    ELSE LET rest == SortedByStart(intervals, n - 1)
             x    == intervals[n]
             k    == Cardinality({j \in 1..Len(rest) : rest[j].start <= x.start})
         IN SubSeq(rest, 1, k) \o <<x>> \o SubSeq(rest, k + 1, Len(rest))

\* the loop of find_gaps over the neighbours of the sorted list, from
\* position i on
RECURSIVE GapsBetween(_, _)
GapsBetween(sorted_intervals, i) ==
    IF i > Len(sorted_intervals) - 1 THEN <<>>
    ELSE LET current_end == sorted_intervals[i].end
             next_start  == sorted_intervals[i + 1].start
         IN (IF next_start > current_end + 1
             THEN <<Interval(current_end + 1, next_start - 1)>>
             ELSE <<>>) \o GapsBetween(sorted_intervals, i + 1)

find_gaps(intervals, y) ==
    IF intervals = <<>> THEN <<Interval(Date(y, 1, 1), Date(y, 12, 31))>>
    ELSE LET sorted_intervals == SortedByStart(intervals, Len(intervals))
             year_start == Date(y, 1, 1)
             year_end   == Date(y, 12, 31)
             last       == sorted_intervals[Len(sorted_intervals)]
         IN (IF sorted_intervals[1].start > year_start
             THEN <<Interval(year_start, sorted_intervals[1].start - 1)>>
             ELSE <<>>)
            \o GapsBetween(sorted_intervals, 1)
            \o (IF last.end < year_end
                THEN <<Interval(last.end + 1, year_end)>>
                ELSE <<>>)

GapsYear == ClassifyYear

\* the dates the intervals start and end at: the first days of January, a
\* day of June and the last days of December
GapsPool ==
    {Date(GapsYear, 1, 1), Date(GapsYear, 1, 2), Date(GapsYear, 1, 4),
     Date(GapsYear, 6, 15), Date(GapsYear, 12, 30), Date(GapsYear, 12, 31)}

\* the intervals the constructor accepts
GapsIntervals ==
    {Interval(p[1], p[2]) : p \in {q \in GapsPool \X GapsPool : q[1] <= q[2]}}

\* every list of at most MaxInput - 1 intervals, in any order
InitGaps ==
    /\ year = GapsYear
    /\ args \in {<<l>> : l \in UNION {[1..k -> GapsIntervals] : k \in 0..(MaxInput - 1)}}
    /\ pc = "gaps"
    /\ holidays = <<>>
    /\ seed = RandomStream(0)
    /\ holiday_map = <<>>
    /\ rng = 0
    /\ state = ScheduleState(0, <<>>, {}, {})
    /\ work_length = 0
    /\ days = <<>>
    /\ errors = <<>>
    /\ outcome = ""
    /\ first = <<>>
    /\ num_workers = 0
    /\ base_seed = <<>>
    /\ worker_index = 0
    /\ calendars = <<>>
    /\ multiple_outcome = ""
    /\ rest_blocks = <<>>
    /\ returned = <<>>

\* find_gaps(intervals, year)
FindGaps ==
    /\ pc = "gaps"
    /\ returned' = <<find_gaps(args[1], year)>>
    /\ pc' = "done"
    /\ UNCHANGED <<year, holidays, seed, holiday_map, rng, state, work_length,
                   days, errors, outcome, first, num_workers, base_seed,
                   worker_index, calendars, multiple_outcome, rest_blocks,
                   args>>

NextGaps == FindGaps

SpecGaps == InitGaps /\ [][NextGaps]_vars

(***************************************************************************)
(* Properties                                                              *)
(***************************************************************************)
\* build_schedule has returned the sequence days
Built == pc = "built"

IsWorkKind(day) == KindOf(day.day_type) \in {WORK, ORDERING, WORKING_HOLIDAY}
IsRestKind(day) == KindOf(day.day_type) \in {REST, HOLIDAY}
IsREST(day) == KindOf(day.day_type) = REST

\* the kind the sequence s gives to the date d, "none" when d is not in s
KindAt(s, d) ==
    IF \E i \in 1..Len(s) : s[i].date = d
    THEN KindOf(s[CHOOSE i \in 1..Len(s) : s[i].date = d].day_type)
    ELSE "none"

\* the Mondays of the ISO weeks whose seven dates all lie in year y
FullWeekMondays(y) ==
    {m \in Date(y, 1, 1)..(Date(y, 12, 31) - 6) : Weekday(m) = 0}

\* the number of REST pairs (d, d+1) of s inside the week beginning on Monday m
RestPairsInWeek(s, m) ==
    Cardinality({d \in m..(m + 5) : KindAt(s, d) = REST /\ KindAt(s, d + 1) = REST})

\* the number of (Saturday REST, Sunday REST) pairs of s inside month mo of year y
WeekendPairsInMonth(s, y, mo) ==
    Cardinality({d \in Date(y, mo, 1)..(Date(y, mo, DaysInMonth(y, mo)) - 1) :
                    /\ Weekday(d) = 5
                    /\ KindAt(s, d) = REST
                    /\ KindAt(s, d + 1) = REST})

\* C1: the calendar of every day sequence build_schedule returns passes
\* all seven validator rules, so generate_calendar returns it
C1_BuilderOutputValid ==
    (pc = "done" /\ days # <<>>) => (errors = <<>> /\ outcome = "calendar")

\* C2: decide_work_block_length always finds a valid length: the builder
\* never fails with 'No valid work length'
C2_AlwaysValidLength == outcome # "No valid work length"

\* C3: a returned day sequence holds every date of the year exactly once,
\* in increasing order with step one day (365 or 366 days)
C3_EveryDateOnce ==
    Built => /\ Len(days) = DaysInYear(year)
             /\ \A i \in 1..Len(days) : days[i].date = Date(year, 1, 1) + (i - 1)

\* C4: every input holiday date is in the returned sequence with the kind
\* the classifier gave it
C4_HolidaysPlaced ==
    Built => \A h \in DOMAIN holiday_map :
                \E i \in 1..Len(days) :
                    /\ days[i].date = h
                    /\ KindOf(days[i].day_type) = KindOf(holiday_map[h])

\* C5: in a returned sequence every ISO week lying wholly in the year
\* contains exactly one 2-day REST block
C5_OneRestPerFullWeek ==
    Built => \A m \in FullWeekMondays(year) : RestPairsInWeek(days, m) = 1

\* C6: in a returned sequence every month contains exactly one
\* (Saturday REST, Sunday REST) pair
C6_OneWeekendPerMonth ==
    Built => \A mo \in 1..12 : WeekendPairsInMonth(days, year, mo) = 1

\* C7: in a returned sequence every maximal run of work-days (WORK,
\* ORDERING, WORKING_HOLIDAY) has between 3 and 7 days
C7_WorkRunLengths ==
    Built =>
      \A i \in 1..Len(days) :
         (IsWorkKind(days[i]) /\ (i = 1 \/ ~IsWorkKind(days[i - 1]))) =>
            /\ \A k \in i..(i + 2) : k <= Len(days) /\ IsWorkKind(days[k])
            /\ \E k \in (i + 3)..(i + 7) : k > Len(days) \/ ~IsWorkKind(days[k])

\* C8: in a returned sequence a work-day that directly follows a rest-day
\* (REST or HOLIDAY) has kind ORDERING
C8_OrderingAfterRest ==
    Built =>
      \A i \in 2..Len(days) :
         (IsRestKind(days[i - 1]) /\ IsWorkKind(days[i])) =>
            KindOf(days[i].day_type) = ORDERING

\* every maximal run of REST days of s is two consecutive dates, except a
\* run that ends s, which may be the single date Dec 31 of year y
RestRunsArePairs(s, y) ==
    \A i \in 1..Len(s) :
       (IsREST(s[i]) /\ (i = 1 \/ ~IsREST(s[i - 1]))) =>
          \/ /\ i + 1 <= Len(s)
             /\ IsREST(s[i + 1])
             /\ s[i + 1].date = s[i].date + 1
             /\ (i + 2 <= Len(s) => ~IsREST(s[i + 2]))
          \/ /\ i = Len(s)
             /\ s[i].date = Date(y, 12, 31)

\* C9: every maximal run of REST days the builder produces has exactly two
\* days, except that the run ending the sequence may be the single date
\* Dec 31; two rest blocks are never adjacent.  Checked on the sequence
\* each run of the builder ends with, returned or not: days_so_far only
\* grows, so this covers every earlier state of the run
C9_RestRunsArePairs ==
    pc \in {"built", "done"} => RestRunsArePairs(state.days_so_far, year)

\* a returned sequence ends with a one-day rest block at Dec 31 and also
\* holds a two-day rest block
C9_Witness ==
    /\ Built
    /\ Len(days) > 2
    /\ IsREST(days[Len(days)]) /\ ~IsREST(days[Len(days) - 1])
    /\ \E i \in 1..(Len(days) - 1) : IsREST(days[i]) /\ IsREST(days[i + 1])

\* C10: no rest block starts on a Sunday, so no sequence the builder
\* produces has a REST on a Sunday directly followed by a REST on the Monday
\* (checked on the sequence each run of the builder ends with)
C10_NoSundayMondayRest ==
    LET s == state.days_so_far
    IN pc \in {"built", "done"} => \A i \in 1..Len(s) :
          /\ (IsREST(s[i]) /\ (i = 1 \/ ~IsREST(s[i - 1]))) => Weekday(s[i].date) # 6
          /\ (i < Len(s) /\ IsREST(s[i]) /\ IsREST(s[i + 1])) =>
                ~(Weekday(s[i].date) = 6 /\ Weekday(s[i + 1].date) = 0)

\* a returned sequence holds a REST on a Sunday (the second day of a block)
\* whose Monday is a work-day
C10_Witness ==
    /\ Built
    /\ \E i \in 1..(Len(days) - 1) :
          /\ IsREST(days[i]) /\ Weekday(days[i].date) = 6
          /\ IsWorkKind(days[i + 1]) /\ Weekday(days[i + 1].date) = 0

InputDates == SetOfSeq(holidays)

\* S holds a run of three or more consecutive dates
HasLargeRun(S) == \E d \in S : d + 1 \in S /\ d + 2 \in S

\* the first date of the earliest run of three or more dates of S
FirstLargeRun(S) ==
    Min({d \in S : d - 1 \notin S /\ d + 1 \in S /\ d + 2 \in S})

\* d begins a run of S of exactly two dates, a Sunday and the Monday after
IsSundayMondayRun(S, d) ==
    /\ d \in S /\ d + 1 \in S
    /\ d - 1 \notin S /\ d + 2 \notin S
    /\ Weekday(d) = 6

HasSundayMondayRun(S) == \E d \in S : IsSundayMondayRun(S, d)

FirstSundayMondayRun(S) == Min({d \in S : IsSundayMondayRun(S, d)})

\* the kind the claims give the date d of S when every run has one or two
\* dates
ExpectedKind(S, d) ==
    IF d - 1 \in S THEN HOLIDAY
    ELSE IF d + 1 \in S THEN WORKING_HOLIDAY
    ELSE HOLIDAY

C14_LargeRunMessage ==
    (pc = "done" /\ HasLargeRun(InputDates)) =>
        (outcome = "Holiday block too large" /\ holiday_map = <<>>)

\* C14 amended: whenever the input holds a run of three or more
\* consecutive dates, process_holidays fails and returns no map; the
\* failure is 'Holiday block too large', naming the earliest such run,
\* unless a Sunday-Monday pair comes before that run, and then it is
\* 'Sunday-Monday holiday pair not allowed'
C14_LargeRunFails ==
    (pc = "done" /\ HasLargeRun(InputDates)) =>
        LET S     == InputDates
            large == FirstLargeRun(S)
            pair_first == HasSundayMondayRun(S) /\ FirstSundayMondayRun(S) < large
        IN /\ holiday_map = <<>>
           /\ Len(errors) = 1
           /\ outcome = (IF pair_first
                         THEN "Sunday-Monday holiday pair not allowed"
                         ELSE "Holiday block too large")
           /\ ~pair_first =>
                 /\ errors[1][2][1] = large
                 /\ Len(errors[1][2]) >= 3
                 /\ \A k \in 1..Len(errors[1][2]) : errors[1][2][k] = large + k - 1
                 /\ large + Len(errors[1][2]) \notin S

\* a list given out of order failed on a run of three dates
C14_Witness ==
    /\ pc = "done"
    /\ outcome = "Holiday block too large"
    /\ Len(errors[1][2]) = 3
    /\ \E k \in 1..(Len(holidays) - 1) : holidays[k] > holidays[k + 1]

\* C15 as stated: whenever the input holds a run of exactly two dates, a
\* Sunday and the Monday after, process_holidays fails with 'Sunday-Monday
\* holiday pair not allowed'
C15_SundayMondayMessage ==
    (pc = "done" /\ HasSundayMondayRun(InputDates)) =>
        outcome = "Sunday-Monday holiday pair not allowed"

\* C15 amended: whenever the input holds a run of exactly two dates, a
\* Sunday and the Monday after, process_holidays fails and returns no map;
\* the failure is 'Sunday-Monday holiday pair not allowed', naming the
\* earliest such pair, unless a run of three or more dates comes before
\* it, and then it is 'Holiday block too large'.  An input whose runs of
\* two dates are all other pairs, and which has no longer run, is accepted
C15_SundayMondayFails ==
    /\ (pc = "done" /\ HasSundayMondayRun(InputDates)) =>
          LET S    == InputDates
              pair == FirstSundayMondayRun(S)
              large_first == HasLargeRun(S) /\ FirstLargeRun(S) < pair
          IN /\ holiday_map = <<>>
             /\ Len(errors) = 1
             /\ outcome = (IF large_first
                           THEN "Holiday block too large"
                           ELSE "Sunday-Monday holiday pair not allowed")
             /\ ~large_first => errors[1][2] = <<pair, pair + 1>>
    /\ (pc = "done" /\ ~HasSundayMondayRun(InputDates) /\ ~HasLargeRun(InputDates)) =>
          outcome = "map"

\* the input held a Sunday-Monday pair and another pair, which alone is
\* accepted, and failed on the Sunday-Monday pair
C15_Witness ==
    /\ pc = "done"
    /\ outcome = "Sunday-Monday holiday pair not allowed"
    /\ {Date(year, 1, 31), Date(year, 2, 1)} \subseteq InputDates
    /\ Date(year, 1, 30) \notin InputDates

\* C16: process_holidays gives a list in any order, with any repetition,
\* the result it gives the ascending list of its distinct dates: the same
\* map, or the same failure naming the same block
C16_DependsOnDateSetOnly ==
    pc = "done" =>
        LET r == process_holidays(SortedSeq(InputDates))
        IN /\ holiday_map = r.result
           /\ outcome = (IF r.error = "" THEN "map" ELSE r.error)
           /\ errors = (IF r.error = "" THEN <<>> ELSE << <<r.error, r.block>> >>)

\* a list in descending order with a repeated date was classified: a pair
\* given as second, first, second
C16_Witness ==
    /\ pc = "done"
    /\ Len(holidays) = 3
    /\ holidays[1] = holidays[3]
    /\ holidays[2] = holidays[1] - 1
    /\ outcome = "map"
    /\ KindOf(holiday_map[holidays[2]]) = WORKING_HOLIDAY

\* the input generate_calendar must reject, and the message it is to
\* reject it with: the year first, then the holidays' years, then
\* repeated dates
InvalidYear == year < 1
ForeignHoliday == \E k \in 1..Len(holidays) : YearOf(holidays[k]) # year
RepeatedHoliday ==
    \E k \in 1..Len(holidays) : \E n \in (k + 1)..Len(holidays) :
        holidays[k] = holidays[n]

\* C17: generate_calendar fails with an input error when year < 1, when a
\* holiday is of another year and when a date is given twice, before the
\* classifier, the random source or the builder has done anything: no
\* holiday map, no draw, no day placed
C17_InputRejectedFirst ==
    (pc = "done" /\ (InvalidYear \/ ForeignHoliday \/ RepeatedHoliday)) =>
        /\ outcome = (IF InvalidYear THEN "Invalid year"
                      ELSE IF ForeignHoliday
                           THEN "All holidays must be in the target year"
                      ELSE "Duplicate holidays found")
        /\ holiday_map = <<>>
        /\ rng = 0
        /\ state.days_so_far = <<>>
        /\ days = <<>>

\* a list with a repeated date, which process_holidays alone classifies,
\* was rejected as a duplicate
C17_Witness ==
    /\ pc = "done"
    /\ outcome = "Duplicate holidays found"
    /\ process_holidays(holidays).error = ""
    /\ process_holidays(holidays).result # <<>>

\* a call of generate_calendar made by generate_multiple_calendars is
\* under way or just over
InWorkerCall == pc \in {"start", "build", "rest", "built", "done"}

RECURSIVE Flatten(_)
Flatten(blocks) ==
    IF blocks = <<>> THEN <<>> ELSE blocks[1] \o Flatten(Tail(blocks))

\* the position in days of an entry of a block (the dates of days differ)
PositionOf(day) == CHOOSE k \in 1..Len(days) : days[k] = day

\* C19: get_rest_blocks returns the maximal runs of consecutive REST
\* entries of the day sequence, in order: every block is non-empty, holds
\* only REST days at consecutive positions and cannot be extended at
\* either end; no HOLIDAY is in a block; REST days with a HOLIDAY between
\* them are in different blocks; the blocks concatenated are the REST days
\* of the calendar
C19_RestBlocksAreMaximalRuns ==
    pc = "done" =>
        /\ \A b \in 1..Len(rest_blocks) :
              LET block == rest_blocks[b]
                  from  == PositionOf(block[1])
                  to    == from + Len(block) - 1
              IN /\ block # <<>>
                 /\ \A k \in 1..Len(block) :
                       /\ block[k].day_type = REST
                       /\ KindOf(block[k].day_type) # HOLIDAY
                       /\ block[k] = days[from + k - 1]
                 /\ from = 1 \/ days[from - 1].day_type # REST
                 /\ to = Len(days) \/ days[to + 1].day_type # REST
                 /\ \A k \in from..to : KindOf(days[k].day_type) # HOLIDAY
                 /\ b > 1 => PositionOf(rest_blocks[b - 1][1]) < from
        /\ Flatten(rest_blocks) = SelectSeq(days, IsREST)
        /\ rest_blocks = get_rest_blocks(Calendar(year, days))

\* the sequence holds REST, a HOLIDAY (of either DayType) and REST in a
\* row, and two blocks were returned
C19_Witness ==
    /\ pc = "done"
    /\ Len(rest_blocks) >= 2
    /\ \E k \in 1..(Len(days) - 2) :
          /\ days[k].day_type = REST
          /\ days[k + 1].day_type = CoreHOLIDAY
          /\ days[k + 2].day_type = REST

\* the date after the n-th date from start on that is no holiday: the rest
\* start counting n non-holiday dates from start gives
RestStartAfter(start, n, hmap) ==
    CHOOSE d \in (start + n)..(start + n + Cardinality(DOMAIN hmap)) :
        /\ d - 1 \notin DOMAIN hmap
        /\ Cardinality({x \in start..(d - 1) : x \notin DOMAIN hmap}) = n

\* C20: whenever decide_work_block_length returns a length L at
\* current_date, L is in 3..7, the work streak so far plus L is at most 7,
\* the rest start counting L non-holiday dates from current_date gives is
\* in the same year, can_place_rest_at holds there and, when the ISO week
\* of current_date is not in weeks_with_rest, the rest start is in that week
C20_ReturnedLengthIsValid ==
    [][(pc = "build" /\ rng' = rng + 1) =>
          LET L            == work_length'
              current_date == state.current_date
              rest_start   == RestStartAfter(current_date, L, holiday_map)
          IN /\ L \in 3..7
             /\ current_work_streak(state) + L <= 7
             /\ YearOf(rest_start) = YearOf(current_date)
             /\ can_place_rest_at(rest_start, holiday_map)
             /\ IsoWeek(current_date) \notin state.weeks_with_rest =>
                   IsoWeek(rest_start) = IsoWeek(current_date)]_vars

\* a length was returned whose count passed over a holiday, the days were
\* placed, and the rest start it leads to is in a week still without rest
C20_Witness ==
    /\ pc = "rest"
    /\ rng >= 1
    /\ work_length \in 3..7
    /\ IsoWeek(state.current_date) \notin state.weeks_with_rest
    /\ \E h \in DOMAIN holiday_map :
          /\ state.current_date - work_length - 1 <= h
          /\ h < state.current_date
          /\ KindAt(state.days_so_far, h) = "none"

\* the date at which the last call of place_work_block started: the date of
\* the first of the work_length days it placed
DecidedAt == state.days_so_far[Len(state.days_so_far) - work_length + 1].date

\* the state the last call of decide_work_block_length was given, read back
\* from the state place_work_block left
BeforeDecision ==
    ScheduleState(DecidedAt,
                  SubSeq(state.days_so_far, 1, Len(state.days_so_far) - work_length),
                  state.weeks_with_rest, state.months_with_weekend)

\* the lengths of 3..7 decide_work_block_length may return for st
ValidSet(st, hmap) ==
    {l \in 3..7 : is_valid_work_length(st, st.current_date, l, hmap)}

\* the valid lengths whose rest start is a Friday
FridaySet(st, hmap) ==
    {l \in ValidSet(st, hmap) :
        Weekday(RestStartAfter(st.current_date, l, hmap)) = 4}

\* C21: when the month of current_date is not in months_with_weekend and
\* some valid length makes the rest start a Friday, the length
\* decide_work_block_length returns is one of the valid lengths whose rest
\* start is a Friday; otherwise it is any valid length
C21_SteersToFriday ==
    pc = "rest" =>
        LET st == BeforeDecision
        IN IF /\ MonthOf(st.current_date) \notin st.months_with_weekend
              /\ FridaySet(st, holiday_map) # {}
           THEN /\ work_length \in FridaySet(st, holiday_map)
                /\ Weekday(state.current_date) = 4
           ELSE work_length \in ValidSet(st, holiday_map)

\* a length was returned for a month without weekend when a valid length
\* with a Friday rest start and one without were both at hand
C21_Witness ==
    /\ pc = "rest"
    /\ MonthOf(DecidedAt) \notin state.months_with_weekend
    /\ FridaySet(BeforeDecision, holiday_map) # {}
    /\ FridaySet(BeforeDecision, holiday_map) # ValidSet(BeforeDecision, holiday_map)
    /\ Weekday(state.current_date) = 4

\* the last call of decide_work_block_length drew from friday_landing: the
\* month lacked a weekend and the length returned has a Friday rest start
Steered ==
    /\ pc = "rest"
    /\ MonthOf(DecidedAt) \notin state.months_with_weekend
    /\ work_length \in FridaySet(BeforeDecision, holiday_map)

\* C22: when the month of current_date is not in months_with_weekend and
\* decide_work_block_length returns a length from the Friday-landing
\* subset, the rest block placed right after that work block is a
\* Saturday-Sunday REST pair and the month is added to months_with_weekend
C22_SteeredRestIsWeekend ==
    [][(Steered /\ pc' = "build") =>
          LET s == state'.days_so_far
              n == Len(s)
          IN /\ n >= 2
             /\ s[n - 1].day_type = REST /\ Weekday(s[n - 1].date) = 5
             /\ s[n].day_type = REST /\ Weekday(s[n].date) = 6
             /\ MonthOf(DecidedAt) \in state'.months_with_weekend]_vars

\* the number of maximal runs of WORK and ORDERING entries in s: the number
\* of work blocks placed, as every work block is followed by a rest block
WorkRuns(s) ==
    Cardinality({k \in 1..Len(s) :
                    /\ s[k].day_type \in {WORK, ORDERING}
                    /\ (k = 1 \/ s[k - 1].day_type \notin {WORK, ORDERING})})

\* C23: a call of decide_work_block_length that returns draws from the
\* random source exactly once, and the length is the draw applied to the
\* candidate list already fixed (steered or not); a call failing with "No
\* valid work length", the holiday branch and the rest branch draw nothing.
\* So the number of draws is the number of work blocks placed, the length
\* of the last block is what the draw before it picks from its candidate
\* list, and a failure keeps the count
C23_OneDrawPerDecision ==
    /\ pc \in {"rest", "built", "done"} /\ state.current_date # 0 =>
          rng = WorkRuns(state.days_so_far)
    /\ pc = "rest" =>
          LET st   == BeforeDecision
              list == IF /\ MonthOf(st.current_date) \notin st.months_with_weekend
                         /\ FridaySet(st, holiday_map) # {}
                      THEN SortedSeq(FridaySet(st, holiday_map))
                      ELSE SortedSeq(ValidSet(st, holiday_map))
          IN work_length = list[(seed[((rng - 1) % StreamLen) + 1] % Len(list)) + 1]

\* a run of the builder that placed holidays, work blocks and rest blocks
\* and then failed with "No valid work length" after several draws
C23_Witness ==
    /\ pc = "done"
    /\ outcome = "No valid work length"
    /\ rng >= 3
    /\ \E k \in 1..Len(state.days_so_far) :
          KindOf(state.days_so_far[k].day_type) \in {"HOLIDAY", "WORKING_HOLIDAY"}

\* C24: inside build_schedule place_rest_block never fails: "Cannot place
\* rest" is no outcome, and the date at which place_work_block stops is the
\* rest start simulate_work_placement computed for the chosen length, at
\* which can_place_rest_at holds for the same holiday map
C24_RestAlwaysPlaceable ==
    /\ outcome # "Cannot place rest"
    /\ pc = "rest" =>
          /\ state.current_date =
                simulate_work_placement(DecidedAt, work_length, holiday_map)
          /\ state.current_date = RestStartAfter(DecidedAt, work_length, holiday_map)
          /\ YearOf(state.current_date) = year
          /\ can_place_rest_at(state.current_date, holiday_map)

\* place_work_block passed over a holiday date and stopped at a date where
\* the rest block is then placed
C24_Witness ==
    /\ pc = "rest"
    /\ state.current_date - DecidedAt > work_length
    /\ \E h \in DOMAIN holiday_map : DecidedAt < h /\ h < state.current_date
    /\ can_place_rest_at(state.current_date, holiday_map)

\* C25: can_place_rest_at(start, holidays) is true if and only if start
\* is not a Sunday, neither start nor start + 1 is a key of the holiday
\* map, and start + 2 is not mapped to HOLIDAY; a WORKING_HOLIDAY at
\* start + 2 does not block the placement
C25_CanPlaceRestIff ==
    pc = "done" =>
        LET start == state.current_date
        IN returned =
              << /\ Weekday(start) # 6
                 /\ start \notin DOMAIN holiday_map
                 /\ start + 1 \notin DOMAIN holiday_map
                 /\ ~(/\ start + 2 \in DOMAIN holiday_map
                      /\ KindOf(holiday_map[start + 2]) = "HOLIDAY") >>

\* C26: build_schedule terminates: an iteration of the holiday branch moves
\* current_date on by one day, a work block by at least its three or more
\* work days, the rest block after it by two days, the cursor never passes
\* Jan 2 of the next year, and every run of the builder ends, with the
\* sequence returned or an error raised
C26_BuilderTerminates ==
    /\ [][/\ (pc = "build" /\ pc' = "build" /\ state' # state) =>
                /\ state.current_date \in DOMAIN holiday_map
                /\ state'.current_date = state.current_date + 1
          /\ (pc = "build" /\ pc' = "rest") =>
                /\ work_length' >= 3
                /\ Len(state'.days_so_far) = Len(state.days_so_far) + work_length'
                /\ state'.current_date >= state.current_date + work_length'
          /\ (pc = "rest" /\ pc' = "build") =>
                state'.current_date = state.current_date + 2
          /\ pc' \in {"build", "rest"} =>
                state'.current_date <= Date(year, 12, 31) + 2]_vars
    /\ <>(pc \in {"built", "done"})

\* a run of the builder that placed a holiday reached the end of the year
C26_Witness ==
    /\ pc = "built"
    /\ YearOf(state.current_date) = year + 1
    /\ \E k \in 1..Len(days) : days[k].date \in DOMAIN holiday_map

\* the dates at which the rest blocks of s start
RestStarts(s) ==
    {s[k].date : k \in {j \in 1..Len(s) :
                           /\ s[j].day_type = REST
                           /\ (j = 1 \/ s[j - 1].day_type # REST)}}

\* C27: place_holiday and place_work_block leave weeks_with_rest and
\* months_with_weekend as they are and the holiday map is never modified;
\* place_rest_block adds the ISO week of the rest start, adds the month of
\* the rest start only when that is a Saturday, and removes nothing. So at
\* every point of build_schedule weeks_with_rest holds exactly the ISO
\* weeks of the rest starts placed, months_with_weekend exactly the months
\* of the rest starts that are Saturdays, and the map is the classifier's
C27_BookkeepingFrame ==
    pc \in {"build", "rest", "built"} =>
        /\ state.weeks_with_rest =
              {IsoWeek(d) : d \in RestStarts(state.days_so_far)}
        /\ state.months_with_weekend =
              {MonthOf(d) : d \in {e \in RestStarts(state.days_so_far) :
                                      Weekday(e) = 5}}
        /\ holiday_map = process_holidays(holidays).result

\* a holiday, work blocks and rest blocks were placed, one rest block
\* starting on a Saturday and one on another day of a week
C27_Witness ==
    /\ pc = "build"
    /\ state.months_with_weekend # {}
    /\ \E d \in RestStarts(state.days_so_far) : Weekday(d) # 5
    /\ \E k \in 1..Len(state.days_so_far) :
          state.days_so_far[k].date \in DOMAIN holiday_map

RuleOf(e) ==
    CASE e[1] \in {"First holiday in pair should be WORKING_HOLIDAY",
                   "Second holiday in pair should be HOLIDAY",
                   "Isolated holiday should be HOLIDAY"} -> 1
      [] e[1] = "Rest block must be 2 days" -> 2
      [] e[1] = "Expected ORDERING after rest" -> 3
      [] e[1] \in {"Work block (min: 3)", "Work block (max: 7)"} -> 4
      [] e[1] = "Month free weekends (must be 1)" -> 5
      [] e[1] = "Week rest blocks (must be 1)" -> 6
      [] e[1] = "Invalid Sunday-Monday rest block" -> 7

\* the errors of errs that come from rule r, in their order
ErrorsOfRule(errs, r) ==
    LET from_rule(e) == RuleOf(e) = r
    IN SelectSeq(errs, from_rule)

HolidayPositions(s) ==
    {k \in 1..Len(s) : KindOf(s[k].day_type) \in {"HOLIDAY", "WORKING_HOLIDAY"}}

\* C30: validate_holiday_pairing, applied to a calendar whose only
\* holiday-kind days are two consecutive dates both HOLIDAY, returns
\* exactly two errors, the first stating that the first day of the pair
\* should be WORKING_HOLIDAY; applied to an isolated HOLIDAY or to a
\* consecutive (WORKING_HOLIDAY, HOLIDAY) pair it returns no error
C30_HolidayPairErrors ==
    pc = "done" =>
        LET pairing == ErrorsOfRule(errors, 1)
            H       == HolidayPositions(days)
        IN /\ \A k \in 1..(Len(days) - 1) :
                 (H = {k, k + 1} /\ days[k].day_type = HOLIDAY
                                 /\ days[k + 1].day_type = HOLIDAY) =>
                    /\ Len(pairing) = 2
                    /\ pairing[1] = <<"First holiday in pair should be WORKING_HOLIDAY",
                                      days[k].date>>
           /\ \A k \in 1..(Len(days) - 1) :
                 (H = {k, k + 1} /\ days[k].day_type = WORKING_HOLIDAY
                                 /\ days[k + 1].day_type = HOLIDAY) =>
                    pairing = <<>>
           /\ \A k \in 1..Len(days) :
                 (H = {k} /\ days[k].day_type = HOLIDAY) => pairing = <<>>

\* the ISO year of d: the year of the Thursday of its week
IsoYear(d) == YearOf(d - Weekday(d) + 3)

\* C31: for every year Y and every week number W of the enumeration of
\* Y's weeks, every date _get_week_dates(Y, W) returns lies in year Y and
\* has ISO week number W, and no date of year Y with ISO week number W of
\* ISO year Y is left out
C31_WeekDatesAreTheWeek ==
    pc = "done" =>
        LET W     == args[1]
            dates == returned[1]
        IN /\ \A k \in 1..Len(dates) :
                 /\ YearOf(dates[k]) = year
                 /\ IsoWeek(dates[k]) = W
                 /\ k > 1 => dates[k] = dates[k - 1] + 1
           /\ \A d \in Date(year, 1, 1)..Date(year, 12, 31) :
                 (IsoWeek(d) = W /\ IsoYear(d) = year) =>
                    \E k \in 1..Len(dates) : dates[k] = d

\* the dates of week 53 of a year, cut short by the end of the year
C31_Witness ==
    /\ pc = "done"
    /\ args[1] = 53
    /\ returned[1] # <<>>
    /\ Len(returned[1]) < 7
    /\ returned[1][Len(returned[1])] = Date(year, 12, 31)

\* s holds a REST on a Saturday of month m directly followed by a REST on
\* the Sunday, which is in month m too: the pair validate_monthly_weekends
\* counts for m
HasWeekendPair(s, m) ==
    \E k \in 1..(Len(s) - 1) :
        /\ s[k].day_type = REST /\ Weekday(s[k].date) = 5
        /\ MonthOf(s[k].date) = m
        /\ s[k + 1].day_type = REST /\ s[k + 1].date = s[k].date + 1
        /\ MonthOf(s[k + 1].date) = m

\* C32: in every ScheduleState a month is in months_with_weekend only if
\* days_so_far holds a REST on a Saturday of that month directly followed
\* by a REST on the Sunday, with the Sunday in that month too
C32_MonthMarkedHasWeekend ==
    pc \in {"build", "rest", "built"} =>
        \A m \in state.months_with_weekend :
            HasWeekendPair(state.days_so_far, m)


\* C33: in every state of the builder and for every date d of the year,
\* needs_rest_this_week(state, d) is false exactly when days_so_far holds a
\* rest block that starts in the ISO week of d, the same week number of the
\* same ISO year.
C33_NeedsRestIffRestInIsoWeek ==
    pc \in {"build", "rest", "built"} =>
        \A d \in Date(year, 1, 1)..Date(year, 12, 31) :
            (~needs_rest_this_week(state, d)) <=>
                \E r \in RestStarts(state.days_so_far) :
                    /\ IsoWeek(r) = IsoWeek(d)
                    /\ IsoYear(r) = IsoYear(d)


\* a call of decide_work_block_length is about to be made: the loop of
\* build_schedule is at a date of the year that is not a holiday
AtDecision ==
    /\ pc = "build"
    /\ YearOf(state.current_date) = year
    /\ state.current_date \notin DOMAIN holiday_map

\* C34: at every call of decide_work_block_length made by build_schedule,
\* current_work_streak is 0: days_so_far is empty or its last day is a REST
\* day or a day that place_holiday placed. So max_work_days_remaining is 7
\* and no length of 3..7 fails the streak check of is_valid_work_length.
C34_NoStreakAtDecision ==
    AtDecision =>
        LET s == state.days_so_far
        IN /\ current_work_streak(state) = 0
           /\ \/ s = <<>>
              \/ s[Len(s)].day_type = REST
              \/ s[Len(s)].date \in DOMAIN holiday_map
           /\ max_work_days_remaining(state) = 7
           /\ \A l \in 3..7 : current_work_streak(state) + l <= 7

\* a decision is made right after a day other than REST was placed
C34_Witness ==
    /\ AtDecision
    /\ state.days_so_far # <<>>
    /\ state.days_so_far[Len(state.days_so_far)].day_type # REST
    /\ ChoiceList(state, state.current_date, holiday_map) # <<>>


\* C35: place_work_block never stops at the year boundary. After it the
\* loop is at a date of the year with a rest block to place, and the last
\* work_length days of days_so_far are the work days of the block, no more
\* and no fewer; so the loop is never at its head right after a WORK or
\* ORDERING day, and the last day of a returned sequence is a REST day or a
\* holiday.
C35_WorkBlockFullRestFollows ==
    LET s == state.days_so_far
        n == Len(state.days_so_far)
    IN /\ pc = "rest" =>
            /\ YearOf(state.current_date) = year
            /\ work_length \in 3..7
            /\ n >= work_length
            /\ \A k \in (n - work_length + 1)..n : s[k].day_type \in {WORK, ORDERING}
            /\ n > work_length => s[n - work_length].day_type \notin {WORK, ORDERING}
            /\ state.current_date - DecidedAt
                 = work_length + Cardinality({h \in DOMAIN holiday_map :
                                     DecidedAt <= h /\ h < state.current_date})
       /\ pc = "build" /\ n > 0 => s[n].day_type \notin {WORK, ORDERING}
       /\ pc \in {"built", "done"} /\ days # <<>> =>
            KindOf(days[Len(days)].day_type) \in {REST, HOLIDAY, WORKING_HOLIDAY}

\* a sequence is returned whose last work block ends in the last week of
\* the year
C35_Witness ==
    /\ pc = "built"
    /\ days # <<>>
    /\ days[Len(days)].day_type = REST
    /\ \E k \in 1..Len(days) :
          /\ days[k].day_type \in {WORK, ORDERING}
          /\ days[k].date >= Date(year, 12, 25)


\* C36: a calendar validate_calendar accepts holds every date of its year
\* exactly once, in increasing order.
C36_AcceptedIsComplete ==
    pc = "done" /\ outcome = "calendar" =>
        /\ Len(days) = DaysInYear(year)
        /\ \A k \in 1..Len(days) : days[k].date = Date(year, 1, 1) + k - 1


\* the dates of SpecGaps' year that no interval of the list l contains
Uncovered(l) ==
    {d \in Date(year, 1, 1)..Date(year, 12, 31) :
        \A k \in 1..Len(l) : ~(l[k].start <= d /\ d <= l[k].end)}

\* C37: find_gaps(intervals, year) returns, in ascending order, exactly the
\* maximal runs of dates of the year that no input interval contains: each
\* gap is a non-empty interval of uncovered dates that cannot be extended,
\* the gaps do not overlap, and every uncovered date is in a gap.
C37_GapsAreTheUncoveredRuns ==
    pc = "done" =>
        LET gaps == returned[1]
            free == Uncovered(args[1])
        IN /\ \A k \in 1..Len(gaps) :
                 /\ gaps[k].start <= gaps[k].end
                 /\ \A d \in gaps[k].start..gaps[k].end : d \in free
                 /\ (gaps[k].start - 1) \notin free
                 /\ (gaps[k].end + 1) \notin free
           /\ \A k \in 1..(Len(gaps) - 1) : gaps[k].end < gaps[k + 1].start
           /\ \A d \in free :
                 \E k \in 1..Len(gaps) : gaps[k].start <= d /\ d <= gaps[k].end

====
